---- MODULE Spec2Model ----
(***************************************************************************)
(* ts-optchain: the TypeScript custom transformer (src/transform) that     *)
(* rewrites oc(...) accessor chains into null-guarded conditionals, the    *)
(* type recognizer it relies on, and the ES6 Proxy implementation          *)
(* (src/proxy) of the same accessor.                                       *)
(***************************************************************************)
EXTENDS Integers, Sequences, FiniteSets, TLC

VARIABLES
    file,      \* transformer: the source unit handed to the transformer
    out,       \* transformer: the tree it returned, or the thrown error
    visits,    \* transformer: the nodes passed to visitNode, in call order
    pc,        \* transformer: "ready" | "done" | "threw"
    tn,        \* recognizer: the type node handed to _isValidOCType
    verdict,   \* recognizer: "pending" | "true" | "false"
    heap,      \* run time: the fields of the objects of the data
    data,      \* run time: the value of x in oc(x)
    rootGiven, \* run time: FALSE for oc() called with no argument
    path,      \* run time: the property keys read from the accessor so far
    acc,       \* run time: the proxy accessor the chain has reached
    callArgs,  \* run time: the arguments of the closing call
    res,       \* run time: what the proxy accessor returned
    tres,      \* run time: what the transformed expression evaluates to
    rpc        \* run time: "chain" | "called" | "compared" | "threw"

tvars == <<file, out, visits, pc>>
yvars == <<tn, verdict>>
rvars == <<heap, data, rootGiven, path, acc, callArgs, res, tres, rpc>>
vars == <<tvars, yvars, rvars>>

\* Longest accessor chain (number of path segments) in the explored sources.
MaxSegs == 3
\* Most members of a union or intersection type in the explored type nodes.
MaxMembers == 2
\* Most property keys read from one accessor at run time.
MaxPath == 3

(***************************************************************************)
(* Syntax nodes.  Every node is [kind, text, id, kids]: kids are the       *)
(* children in ts.forEachChild order, id > 0 identifies a node of the      *)
(* parsed tree and id = 0 marks a node synthesized by ts.create*.          *)
(***************************************************************************)
Node(k, t, i, ks) == [kind |-> k, text |-> t, id |-> i, kids |-> ks]

Identifier(i, name)        == Node("Identifier", name, i, <<>>)
NumericLiteral(i, txt)     == Node("NumericLiteral", txt, i, <<>>)
StringLiteral(i, txt)      == Node("StringLiteral", txt, i, <<>>)
ThisKeyword(i)             == Node("ThisKeyword", "this", i, <<>>)
PropertyAccess(i, e, name) == Node("PropertyAccessExpression", "", i, <<e, name>>)
ElementAccess(i, e, arg)   == Node("ElementAccessExpression", "", i, <<e, arg>>)
ElementAccessNoArg(i, e)   == Node("ElementAccessExpression", "", i, <<e>>)
CallExpression(i, e, args) == Node("CallExpression", "", i, <<e>> \o args)
Parenthesized(i, e)        == Node("ParenthesizedExpression", "", i, <<e>>)
ExpressionStatement(i, e)  == Node("ExpressionStatement", "", i, <<e>>)
SourceFile(stmts)          == Node("SourceFile", "", 1, stmts)
\* the expression of statement s of a source file, and its statements
StmtExpr(tree, s) == tree.kids[s].kids[1]
Stmts(tree) == DOMAIN tree.kids

\* ts.createNull, ts.createBinary, ts.createLogicalAnd, ts.createConditional,
\* ts.createPropertyAccess, ts.createElementAccess, ts.createIdentifier
createNull                     == Node("NullKeyword", "null", 0, <<>>)
createBinary(l, op, r)         == Node("BinaryExpression", op, 0, <<l, r>>)
createLogicalAnd(l, r)         == createBinary(l, "&&", r)
createConditional(c, t, e)     == Node("ConditionalExpression", "", 0, <<c, t, e>>)
createPropertyAccess(e, name)  == Node("PropertyAccessExpression", "", 0, <<e, name>>)
createElementAccess(e, arg)    == Node("ElementAccessExpression", "", 0, <<e, arg>>)
createIdentifier(name)         == Node("Identifier", name, 0, <<>>)

\* A thrown Error, propagated in place of a node.
Thrown(msg) == Node("<Error>", msg, 0, <<>>)
IsThrown(n) == n.kind = "<Error>"
\* JavaScript's undefined where a node was expected (n.arguments[0] of f()).
UndefinedNode == Node("<undefined>", "", 0, <<>>)

isCallExpression(n)           == n.kind = "CallExpression"
isIdentifier(n)               == n.kind = "Identifier"
isPropertyAccessExpression(n) == n.kind = "PropertyAccessExpression"
isElementAccessExpression(n)  == n.kind = "ElementAccessExpression"
\* ts.isToken: SyntaxKind.FirstToken <= kind <= SyntaxKind.LastToken, which
\* covers the literals and the keywords (this, null).
isToken(n) == n.kind \in {"NumericLiteral", "StringLiteral", "ThisKeyword", "NullKeyword"}

\* node.expression, node.arguments, node.name, node.argumentExpression
expressionOf(n) == n.kids[1]
argumentsOf(n)  == SubSeq(n.kids, 2, Len(n.kids))
nameOf(n)       == n.kids[2]
hasArgumentExpression(n) == Len(n.kids) >= 2
argumentExpressionOf(n)  == n.kids[2]

(***************************************************************************)
(* Type nodes, as typeChecker.typeToTypeNode returns them:                 *)
(* [k, name, ident, types].  For a union or intersection, types are the    *)
(* members; for a type reference, name is the text of typeName, ident says *)
(* whether typeName is an Identifier (not a QualifiedName) and types are   *)
(* the type arguments; for an array type, types holds the element type.    *)
(***************************************************************************)
TypeNode(k, n, i, ts) == [k |-> k, name |-> n, ident |-> i, types |-> ts]
NoTypeNode          == TypeNode("<undefined>", "", FALSE, <<>>)
KeywordType(n)      == TypeNode("Keyword", n, FALSE, <<>>)
TypeRef(n, args)    == TypeNode("TypeReference", n, TRUE, args)
QualifiedRef(n, args) == TypeNode("TypeReference", n, FALSE, args)
UnionType(ms)       == TypeNode("UnionType", "", FALSE, ms)
IntersectionType(ms) == TypeNode("IntersectionType", "", FALSE, ms)
ArrayTypeNode(e)    == TypeNode("ArrayType", "", FALSE, <<e>>)
FunctionTypeNode    == TypeNode("FunctionType", "", FALSE, <<>>)

TSOC_ANY_SYMBOL           == "TSOCAny"
TSOC_DATA_ACCESSOR_SYMBOL == "TSOCDataAccessor"
TSOC_TYPE_SYMBOL          == "TSOCType"

(***************************************************************************)
(* _isValidOCType (transform.ts:60-79)                                     *)
(***************************************************************************)
RECURSIVE _isValidOCType(_), someValidOCType(_, _)

\* some() that looks at one member only
someValidOCType_FirstOnly(types, i) ==
    IF i > Len(types) THEN FALSE ELSE _isValidOCType(types[i])

\* node.types.some((n) => _isValidOCType(n)): left to right, stops at the
\* first member that satisfies the predicate.
someValidOCType(types, i) ==
    IF i > Len(types) THEN FALSE
    ELSE IF _isValidOCType(types[i]) THEN TRUE
    ELSE someValidOCType(types, i + 1)

_isValidOCType(node) ==
    IF node.k = "<undefined>" THEN FALSE
    ELSE IF node.k \in {"IntersectionType", "UnionType"}
         THEN someValidOCType(node.types, 1)
    ELSE IF node.k = "TypeReference" /\ node.ident
         THEN \/ node.name = TSOC_ANY_SYMBOL
              \/ node.name = TSOC_DATA_ACCESSOR_SYMBOL
              \/ node.name = TSOC_TYPE_SYMBOL
    ELSE FALSE

(***************************************************************************)
(* The resolved type of a node, as the type checker derives it from the    *)
(* declarations of oc / TSOCType / TSOCAny / TSOCDataAccessor:             *)
(*   oc(v)            : TSOCType<T>                                        *)
(*   m.p, m[k]        : TSOCType<T[p]> for m : TSOCType<T>; TSOCAny for    *)
(*                      m : TSOCType<any> or m : TSOCAny                   *)
(*   m(), m(d)        : Defined<T> | undefined, a plain data type          *)
(* In the explored sources `oc` is the imported function, `acc` is a       *)
(* variable declared as an accessor (const acc = oc(x)), `y` is of type    *)
(* any and every other identifier is plain data.  A synthesized node       *)
(* (id = 0) has no parse-tree node: getTypeAtLocation gives the error type,*)
(* which prints as the keyword any.                                        *)
(***************************************************************************)
AnyType   == KeywordType("any")
PlainType == TypeRef("T", <<>>)
OCTypeOf(arg) == TypeRef(TSOC_TYPE_SYMBOL, <<arg>>)
OCAnyType == TypeRef(TSOC_ANY_SYMBOL, <<>>)
ValueType == UnionType(<<PlainType, KeywordType("undefined")>>)

IsAnyAccessor(t) == t = OCAnyType \/ t = OCTypeOf(AnyType)

RECURSIVE TypeAt(_)
TypeAt(n) ==
    IF n.id = 0 THEN AnyType
    ELSE IF isIdentifier(n) THEN
        CASE n.text = "oc"  -> FunctionTypeNode
          [] n.text = "acc" -> OCTypeOf(PlainType)
          [] n.text = "y"   -> AnyType
          [] OTHER          -> PlainType
    ELSE IF isCallExpression(n) THEN
        LET callee == expressionOf(n) IN
        IF isIdentifier(callee) /\ callee.text = "oc"
        THEN OCTypeOf(IF Len(n.kids) >= 2 THEN TypeAt(n.kids[2]) ELSE KeywordType("undefined"))
        ELSE IF _isValidOCType(TypeAt(callee)) THEN ValueType
        ELSE PlainType
    ELSE IF isPropertyAccessExpression(n) \/ isElementAccessExpression(n) THEN
        LET base == TypeAt(expressionOf(n)) IN
        IF IsAnyAccessor(base) THEN OCAnyType
        ELSE IF _isValidOCType(base) THEN OCTypeOf(PlainType)
        ELSE IF base = AnyType THEN AnyType
        ELSE PlainType
    ELSE IF n.kind = "ParenthesizedExpression" THEN TypeAt(expressionOf(n))
    ELSE IF n.kind \in {"SourceFile", "ExpressionStatement"} THEN NoTypeNode
    ELSE PlainType

(***************************************************************************)
(* _expandOCExpression (transform.ts:81-123)                               *)
(***************************************************************************)
\* _walkExpression (transform.ts:89-105): the closure's subExpression and
\* nodeStack are returned as [root, stack]; nodeStack.unshift(s) happens
\* before the recursive call, so a deeper segment lands in front.
RECURSIVE _walkExpression(_, _)
\* _walkExpression pushing each segment at the back of nodeStack
_walkExpression_Push(n, nodeStack) ==
    IF isCallExpression(n) THEN
        [root  |-> IF Len(argumentsOf(n)) >= 1 THEN argumentsOf(n)[1] ELSE UndefinedNode,
         stack |-> nodeStack, error |-> ""]
    ELSE IF isIdentifier(n) \/ isToken(n) THEN
        [root |-> n, stack |-> nodeStack, error |-> ""]
    ELSE IF isPropertyAccessExpression(n) THEN
        _walkExpression(expressionOf(n), nodeStack \o <<nameOf(n)>>)
    ELSE IF isElementAccessExpression(n) /\ hasArgumentExpression(n) THEN
        _walkExpression(expressionOf(n), nodeStack \o <<argumentExpressionOf(n)>>)
    ELSE
        [root |-> UndefinedNode, stack |-> nodeStack, error |-> "Unknown node type"]

\* _walkExpression unwinding the callee of a call it meets
_walkExpression_ThroughCallee(n, nodeStack) ==
    IF isCallExpression(n) THEN
        _walkExpression(expressionOf(n), nodeStack)
    ELSE IF isIdentifier(n) \/ isToken(n) THEN
        [root |-> n, stack |-> nodeStack, error |-> ""]
    ELSE IF isPropertyAccessExpression(n) THEN
        _walkExpression(expressionOf(n), <<nameOf(n)>> \o nodeStack)
    ELSE IF isElementAccessExpression(n) /\ hasArgumentExpression(n) THEN
        _walkExpression(expressionOf(n), <<argumentExpressionOf(n)>> \o nodeStack)
    ELSE
        [root |-> UndefinedNode, stack |-> nodeStack, error |-> "Unknown node type"]

_walkExpression(n, nodeStack) ==
    IF isCallExpression(n) THEN
        [root  |-> IF Len(argumentsOf(n)) >= 1 THEN argumentsOf(n)[1] ELSE UndefinedNode,
         stack |-> nodeStack, error |-> ""]
    ELSE IF isIdentifier(n) \/ isToken(n) THEN
        [root |-> n, stack |-> nodeStack, error |-> ""]
    ELSE IF isPropertyAccessExpression(n) THEN
        _walkExpression(expressionOf(n), <<nameOf(n)>> \o nodeStack)
    ELSE IF isElementAccessExpression(n) /\ hasArgumentExpression(n) THEN
        _walkExpression(expressionOf(n), <<argumentExpressionOf(n)>> \o nodeStack)
    ELSE
        [root |-> UndefinedNode, stack |-> nodeStack, error |-> "Unknown node type"]

\* The for loop of transform.ts:113-121, from segment i on.
RECURSIVE expandLoop(_, _, _, _)

\* expandLoop with the final segment's not-null clause left out
expandLoop_NoLeafGuard(nodeStack, i, subExpression, condition) ==
    IF i > Len(nodeStack) THEN [sub |-> subExpression, cond |-> condition]
    ELSE LET next == nodeStack[i]
             sub  == IF isIdentifier(next)
                     THEN createPropertyAccess(subExpression, next)
                     ELSE createElementAccess(subExpression, next)
         IN expandLoop(nodeStack, i + 1, sub,
                       IF i = Len(nodeStack) THEN condition
                       ELSE createLogicalAnd(condition, createBinary(sub, "!=", createNull)))

expandLoop(nodeStack, i, subExpression, condition) ==
    IF i > Len(nodeStack) THEN [sub |-> subExpression, cond |-> condition]
    ELSE LET next == nodeStack[i]
             sub  == IF isIdentifier(next)
                     THEN createPropertyAccess(subExpression, next)
                     ELSE createElementAccess(subExpression, next)
         IN expandLoop(nodeStack, i + 1, sub,
                       createLogicalAnd(condition, createBinary(sub, "!=", createNull)))

\* _expandOCExpression whose loop starts at the second segment
_expandOCExpression_SkipFirst(expression, defaultExpression) ==
    LET w == _walkExpression(expression, <<>>) IN
    IF w.error # "" THEN Thrown(w.error)
    ELSE IF w.root = UndefinedNode THEN Thrown("Could not find valid root node")
    ELSE LET r == expandLoop(w.stack, 2, w.root, createBinary(w.root, "!=", createNull))
         IN createConditional(r.cond, r.sub,
                IF defaultExpression # UndefinedNode THEN defaultExpression
                ELSE createIdentifier("undefined"))

\* _expandOCExpression without the fallback to the identifier `undefined`
_expandOCExpression_NoFallback(expression, defaultExpression) ==
    LET w == _walkExpression(expression, <<>>) IN
    IF w.error # "" THEN Thrown(w.error)
    ELSE IF w.root = UndefinedNode THEN Thrown("Could not find valid root node")
    ELSE LET r == expandLoop(w.stack, 1, w.root, createBinary(w.root, "!=", createNull))
         IN createConditional(r.cond, r.sub, defaultExpression)

\* _expandOCExpression returning the root itself for a chain of no segments
_expandOCExpression_BareRoot(expression, defaultExpression) ==
    LET w == _walkExpression(expression, <<>>) IN
    IF w.error # "" THEN Thrown(w.error)
    ELSE IF w.root = UndefinedNode THEN Thrown("Could not find valid root node")
    ELSE IF w.stack = <<>> THEN w.root
    ELSE LET r == expandLoop(w.stack, 1, w.root, createBinary(w.root, "!=", createNull))
         IN createConditional(r.cond, r.sub,
                IF defaultExpression # UndefinedNode THEN defaultExpression
                ELSE createIdentifier("undefined"))

\* _expandOCExpression building on a fresh copy of the root expression
_expandOCExpression_FreshRoot(expression, defaultExpression) ==
    LET w == _walkExpression(expression, <<>>) IN
    IF w.error # "" THEN Thrown(w.error)
    ELSE IF w.root = UndefinedNode THEN Thrown("Could not find valid root node")
    ELSE LET copy == [w.root EXCEPT !.id = 0]
             r == expandLoop(w.stack, 1, copy, createBinary(copy, "!=", createNull))
         IN createConditional(r.cond, r.sub,
                IF defaultExpression # UndefinedNode THEN defaultExpression
                ELSE createIdentifier("undefined"))

\* defaultExpression is UndefinedNode when the parameter is omitted.
_expandOCExpression(expression, defaultExpression) ==
    LET w == _walkExpression(expression, <<>>) IN
    IF w.error # "" THEN Thrown(w.error)
    ELSE IF w.root = UndefinedNode THEN Thrown("Could not find valid root node")
    ELSE LET r == expandLoop(w.stack, 1, w.root, createBinary(w.root, "!=", createNull))
         IN createConditional(r.cond, r.sub,
                IF defaultExpression # UndefinedNode THEN defaultExpression
                ELSE createIdentifier("undefined"))

(***************************************************************************)
(* visitNode (transform.ts:26-58)                                          *)
(***************************************************************************)
\* typeChecker.typeToTypeNode(typeChecker.getTypeAtLocation(n))
typeNodeAt(n) == TypeAt(n)

\* visitNode whose naked-call branch unwraps without looking at the type
visitNode_UnwrapAnyCall(node) ==
    IF isCallExpression(node) THEN
        IF _isValidOCType(typeNodeAt(expressionOf(node))) THEN
            IF Len(argumentsOf(node)) = 0
            THEN _expandOCExpression(expressionOf(node), UndefinedNode)
            ELSE _expandOCExpression(expressionOf(node), argumentsOf(node)[1])
        ELSE IF Len(argumentsOf(node)) # 0
             THEN argumentsOf(node)[1]
        ELSE node
    ELSE IF isPropertyAccessExpression(node) /\ _isValidOCType(typeNodeAt(node))
         THEN _expandOCExpression(node, UndefinedNode)
    ELSE node

\* visitNode synthesizing a guard for the wrapping call as well
visitNode_GuardWrap(node) ==
    IF isCallExpression(node) THEN
        IF _isValidOCType(typeNodeAt(expressionOf(node))) THEN
            IF Len(argumentsOf(node)) = 0
            THEN _expandOCExpression(expressionOf(node), UndefinedNode)
            ELSE _expandOCExpression(expressionOf(node), argumentsOf(node)[1])
        ELSE IF Len(argumentsOf(node)) # 0 /\ _isValidOCType(typeNodeAt(node))
             THEN _expandOCExpression(node, UndefinedNode)
        ELSE node
    ELSE IF isPropertyAccessExpression(node) /\ _isValidOCType(typeNodeAt(node))
         THEN _expandOCExpression(node, UndefinedNode)
    ELSE node

visitNode(node) ==
    IF isCallExpression(node) THEN
        IF _isValidOCType(typeNodeAt(expressionOf(node))) THEN
            IF Len(argumentsOf(node)) = 0
            THEN _expandOCExpression(expressionOf(node), UndefinedNode)
            ELSE _expandOCExpression(expressionOf(node), argumentsOf(node)[1])
        ELSE IF Len(argumentsOf(node)) # 0 /\ _isValidOCType(typeNodeAt(node))
             THEN argumentsOf(node)[1]
        ELSE node
    ELSE IF isPropertyAccessExpression(node) /\ _isValidOCType(typeNodeAt(node))
         THEN _expandOCExpression(node, UndefinedNode)
    ELSE node

(***************************************************************************)
(* visitNodeAndChildren (transform.ts:18-24): ts.visitEachChild applied to *)
(* the node visitNode returned, with visitNodeAndChildren as the visitor.  *)
(* The result is [node, visits]: the rewritten node (or the Error thrown)  *)
(* and the nodes passed to visitNode so far.  An Error thrown by any call  *)
(* propagates: nothing catches it.                                         *)
(***************************************************************************)
RECURSIVE visitNodeAndChildren(_, _), visitEachChild(_, _, _, _)

\* visitNodeAndChildren with the Error of a failed rewrite caught and the
\* node left as it was
visitNodeAndChildren_Catch(node, log) ==
    LET v == visitNode(node) IN
    IF IsThrown(v) THEN visitEachChild(node, 1, <<>>, Append(log, node))
    ELSE visitEachChild(v, 1, <<>>, Append(log, node))

\* visitNodeAndChildren descending into the children of the node it was
\* given, the replacement being emitted as it is
visitNodeAndChildren_OriginalChildren(node, log) ==
    LET v == visitNode(node) IN
    IF IsThrown(v) THEN [node |-> v, visits |-> Append(log, node)]
    ELSE IF v # node
         THEN [node |-> v, visits |-> visitEachChild(node, 1, <<>>, Append(log, node)).visits]
    ELSE visitEachChild(v, 1, <<>>, Append(log, node))

\* children i.. of `node`; done are the visited children 1..i-1
visitEachChild(node, i, done, log) ==
    IF i > Len(node.kids) THEN [node |-> [node EXCEPT !.kids = done], visits |-> log]
    ELSE LET r == visitNodeAndChildren(node.kids[i], log) IN
         IF IsThrown(r.node) THEN r
         ELSE visitEachChild(node, i + 1, Append(done, r.node), r.visits)

visitNodeAndChildren(node, log) ==
    LET v == visitNode(node) IN
    IF IsThrown(v) THEN [node |-> v, visits |-> Append(log, node)]
    ELSE visitEachChild(v, 1, <<>>, Append(log, node))

\* transformer (transform.ts:14-16)
transformer(f) == visitNodeAndChildren(f, <<>>)

(***************************************************************************)
(* The explored source units.  A path segment is written as a descriptor   *)
(* [acc, kind, text]: .a is a property access, [0] and [i] are indexed     *)
(* accesses with a literal and with an identifier key.                     *)
(***************************************************************************)
Seg(a, k, t) == [acc |-> a, kind |-> k, text |-> t]
PropA == Seg("prop", "Identifier", "a")
Elem0 == Seg("elem", "NumericLiteral", "0")
ElemI == Seg("elem", "Identifier", "i")
SegKinds == {PropA, Elem0, ElemI}

SegSeqs(max) == UNION {[1..n -> SegKinds] : n \in 0..max}

\* base.seg, with the access node numbered i and the segment node i + 1
AccessNode(i, base, seg) ==
    IF seg.acc = "prop"
    THEN PropertyAccess(i, base, Node(seg.kind, seg.text, i + 1, <<>>))
    ELSE ElementAccess(i, base, Node(seg.kind, seg.text, i + 1, <<>>))

RECURSIVE BuildAccess(_, _, _, _)
BuildAccess(b, root, segs, k) ==
    IF k = 0 THEN root
    ELSE AccessNode(b + 10 + 2 * k, BuildAccess(b, root, segs, k - 1), segs[k])

\* The root expressions: oc(x), oc(y) with y : any, oc(), the accessor
\* variable acc, the parenthesized (oc(x)) and the plain value x.
RootKinds == {"oc", "ocAny", "ocNoArg", "acc", "paren", "plain"}
RootExpr(b, rk) ==
    CASE rk = "oc"      -> CallExpression(b + 1, Identifier(b + 2, "oc"), <<Identifier(b + 3, "x")>>)
      [] rk = "ocAny"   -> CallExpression(b + 1, Identifier(b + 2, "oc"), <<Identifier(b + 3, "y")>>)
      [] rk = "ocNoArg" -> CallExpression(b + 1, Identifier(b + 2, "oc"), <<>>)
      [] rk = "acc"     -> Identifier(b + 1, "acc")
      [] rk = "paren"   -> Parenthesized(b + 4,
                              CallExpression(b + 1, Identifier(b + 2, "oc"), <<Identifier(b + 3, "x")>>))
      [] rk = "plain"   -> Identifier(b + 1, "x")

\* How the chain ends: left open, closed by (), closed by (d).
Closings == {"open", "call", "callD"}
Close(b, e, cl) ==
    CASE cl = "open"  -> e
      [] cl = "call"  -> CallExpression(b + 5, e, <<>>)
      [] cl = "callD" -> CallExpression(b + 5, e, <<Identifier(b + 6, "d")>>)

Chain(b, rk, segs, cl) == Close(b, BuildAccess(b, RootExpr(b, rk), segs, Len(segs)), cl)

Stmt(s, e) == ExpressionStatement(100 * s, e)
ChainStmt(s, rk, segs, cl) == Stmt(s, Chain(100 * s, rk, segs, cl))

\* f(oc(x).a()), oc(x).a(oc(y)[0]()), oc(oc(x).a()).a()
NestedExprs(b) ==
    { CallExpression(b + 7, Identifier(b + 8, "f"), <<Chain(b, "oc", <<PropA>>, "call")>>),
      CallExpression(b + 5,
          BuildAccess(b, RootExpr(b, "oc"), <<PropA>>, 1),
          <<Chain(b + 50, "ocAny", <<Elem0>>, "call")>>),
      CallExpression(b + 5,
          PropertyAccess(b + 12,
              CallExpression(b + 1, Identifier(b + 2, "oc"),
                             <<Chain(b + 50, "oc", <<PropA>>, "call")>>),
              Identifier(b + 13, "a")),
          <<>>),
      \* oc(oc(x)) and oc(oc(x).a()): a wrap whose argument is an accessor
      CallExpression(b + 7, Identifier(b + 8, "oc"), <<RootExpr(b, "oc")>>),
      CallExpression(b + 7, Identifier(b + 8, "oc"), <<Chain(b, "oc", <<PropA>>, "call")>>) }

OneStmtFiles ==
    { SourceFile(<<ChainStmt(1, rk, segs, cl)>>) :
        rk \in RootKinds, segs \in SegSeqs(MaxSegs), cl \in Closings }
    \cup { SourceFile(<<Stmt(1, e)>>) : e \in NestedExprs(100) }

\* Two statements: chains that unwind, chains that do not, in both orders.
PairStmts(s) ==
    { ChainStmt(s, "oc", <<PropA>>, "call"),
      ChainStmt(s, "oc", <<PropA, Elem0>>, "callD"),
      ChainStmt(s, "acc", <<PropA>>, "open"),
      ChainStmt(s, "plain", <<PropA>>, "open"),
      ChainStmt(s, "paren", <<PropA>>, "call"),
      ChainStmt(s, "ocNoArg", <<PropA>>, "callD"),
      ChainStmt(s, "ocNoArg", <<>>, "call") }
TwoStmtFiles == { SourceFile(<<s1, s2>>) : s1 \in PairStmts(1), s2 \in PairStmts(2) }

Sources == OneStmtFiles \cup TwoStmtFiles


(***************************************************************************)
(* Run-time values.  A value is [t, v]: t is the type tag (null has its    *)
(* own tag, its typeof is "object"), v the text of a primitive or the      *)
(* identity of an object, whose fields are in the heap.                    *)
(***************************************************************************)
Value(t, v) == [t |-> t, v |-> v]
Undefined == Value("undefined", "")
Null      == Value("null", "")
Bool(b)   == Value("boolean", b)
Num(n)    == Value("number", n)
Str(x)    == Value("string", x)
Fn        == Value("function", "g")
Obj(o)    == Value("object", o)
\* an exception in place of a value
TypeError  == Value("<TypeError>", "")
BuildError == Value("<Error>", "")
IsError(v) == v.t \in {"<TypeError>", "<Error>"}

IsNullish(v) == v = Null \/ v = Undefined
typeof(v)    == IF v = Null THEN "object" ELSE v.t
Truthy(v)    == v \notin {Undefined, Null, Bool("false"), Num("0"), Str("")}

Keys == {"a", "0", "length"}

\* length and [0] of the strings in use
StrProp(x, key) ==
    CASE key = "length" -> Num(CASE x = "" -> "0" [] x = "hi" -> "2" [] OTHER -> "1")
      [] key = "0"      -> (CASE x = "" -> Undefined [] x = "hi" -> Str("h") [] OTHER -> Str(x))
      [] OTHER          -> Undefined

\* obj[key] as JavaScript evaluates it (proxy/index.ts:19 and the accesses
\* of the expression the transformer emits)
GetProp(h, v, key) ==
    IF IsNullish(v) THEN TypeError
    ELSE CASE v.t = "object"   -> h[v.v][key]
           [] v.t = "string"   -> StrProp(v.v, key)
           [] v.t = "function" -> (IF key = "length" THEN Num("0") ELSE Undefined)
           [] OTHER            -> Undefined

(***************************************************************************)
(* The proxy oc (proxy/index.ts:13-23).  An accessor is the Proxy around   *)
(* the closure over data: [data].                                          *)
(***************************************************************************)
oc(d) == [data |-> d]

\* the accessor called with a default that replaces only undefined
ocTarget_NotUndefined(a, defaultValue) ==
    IF a.data # Undefined THEN a.data ELSE defaultValue

\* the accessor called with a default that replaces every falsy value
ocTarget_Falsy(a, defaultValue) ==
    IF Truthy(a.data) THEN a.data ELSE defaultValue

\* (defaultValue?) => (data == null ? defaultValue : data)
ocTarget(a, defaultValue) ==
    IF IsNullish(a.data) THEN defaultValue ELSE a.data

\* the get trap with its typeof test inverted
ocGet_Inverted(h, a, key) ==
    LET obj == ocTarget(a, Undefined) IN
    IF typeof(obj) # "object"
    THEN (IF IsError(GetProp(h, obj, key)) THEN TypeError ELSE oc(GetProp(h, obj, key)))
    ELSE oc(Undefined)

\* get: (target, key) => oc(typeof obj === 'object' ? obj[key] : undefined);
\* the result is the new accessor, or the TypeError obj[key] throws.
ocGet(h, a, key) ==
    LET obj == ocTarget(a, Undefined) IN
    IF typeof(obj) = "object"
    THEN (IF IsError(GetProp(h, obj, key)) THEN TypeError ELSE oc(GetProp(h, obj, key)))
    ELSE oc(Undefined)

(***************************************************************************)
(* Evaluation of the expression the transformer emits, with x bound to the *)
(* data and d to the default.                                              *)
(***************************************************************************)
\* a != b for the comparisons the transformer emits (b is null)
LooseNotEqual(a, b) ==
    IF IsNullish(a) \/ IsNullish(b) THEN ~(IsNullish(a) /\ IsNullish(b)) ELSE a # b

RECURSIVE Eval(_, _, _)
Eval(e, env, h) ==
    CASE e.kind = "Identifier" ->
            (IF e.text = "undefined" THEN Undefined
             ELSE IF e.text \in DOMAIN env THEN env[e.text] ELSE BuildError)
      [] e.kind = "NullKeyword"    -> Null
      [] e.kind = "NumericLiteral" -> Num(e.text)
      [] e.kind = "StringLiteral"  -> Str(e.text)
      [] e.kind = "PropertyAccessExpression" ->
            (LET b == Eval(e.kids[1], env, h) IN
             IF IsError(b) THEN b ELSE GetProp(h, b, e.kids[2].text))
      [] e.kind = "ElementAccessExpression" ->
            (LET b == Eval(e.kids[1], env, h)
                 k == Eval(e.kids[2], env, h)
             IN IF IsError(b) THEN b ELSE IF IsError(k) THEN k ELSE GetProp(h, b, k.v))
      [] e.kind = "BinaryExpression" /\ e.text = "!=" ->
            (LET l == Eval(e.kids[1], env, h)
                 r == Eval(e.kids[2], env, h)
             IN IF IsError(l) THEN l ELSE IF IsError(r) THEN r
                ELSE Bool(IF LooseNotEqual(l, r) THEN "true" ELSE "false"))
      [] e.kind = "BinaryExpression" /\ e.text = "&&" ->
            (LET l == Eval(e.kids[1], env, h) IN
             IF IsError(l) \/ ~Truthy(l) THEN l ELSE Eval(e.kids[2], env, h))
      [] e.kind = "ConditionalExpression" ->
            (LET c == Eval(e.kids[1], env, h) IN
             IF IsError(c) THEN c
             ELSE IF Truthy(c) THEN Eval(e.kids[2], env, h) ELSE Eval(e.kids[3], env, h))
      [] OTHER -> BuildError

\* The source chain that reads the keys of p from oc(x) (or from oc()) and
\* closes with the call of arguments a.
KeySeg(k) == IF k = "0" THEN Elem0 ELSE Seg("prop", "Identifier", k)
SourceOf(given, p, a) ==
    SourceFile(<<ChainStmt(1, IF given THEN "oc" ELSE "ocNoArg",
                           [i \in DOMAIN p |-> KeySeg(p[i])],
                           IF a = <<>> THEN "call" ELSE "callD")>>)

\* what the statement of SourceOf evaluates to once transformed
RunTransformed(given, p, a, d, h) ==
    LET t == transformer(SourceOf(given, p, a)).node IN
    IF IsThrown(t) THEN BuildError
    ELSE Eval(StmtExpr(t, 1),
              [n \in {"x", "d"} |-> IF n = "x" THEN d ELSE IF a = <<>> THEN Undefined ELSE a[1]],
              h)

(***************************************************************************)
(* One accessor chain at run time: oc(data), property reads, the closing   *)
(* call, and the same chain compiled by the transformer.                   *)
(***************************************************************************)
Primitives == {Undefined, Null, Bool("false"), Num("0"), Str(""), Str("hi"), Num("7"), Fn}
NoFields == [k \in Keys |-> Undefined]

\* x = { a: v1, 0: o2 }, o2 = { a: v2, length: 7 }
HeapOf(v1, v2) ==
    [o \in {"o1", "o2"} |->
        IF o = "o1" THEN [NoFields EXCEPT !["a"] = v1, !["0"] = Obj("o2")]
        ELSE [NoFields EXCEPT !["a"] = v2, !["length"] = Num("7")]]
Heaps == {HeapOf(v1, v2) : v1 \in Primitives \cup {Obj("o2")}, v2 \in Primitives}
EmptyHeap == [o \in {"o1", "o2"} |-> NoFields]

ArgLists == {<<>>, <<Str("D")>>, <<Undefined>>}

TransformerIdle ==
    /\ file = SourceFile(<<>>)
    /\ out = UndefinedNode
    /\ visits = <<>>
    /\ pc = "idle"

RecognizerIdle ==
    /\ tn = NoTypeNode
    /\ verdict = "idle"

RunIdle ==
    /\ heap = EmptyHeap
    /\ data = Undefined
    /\ rootGiven = FALSE
    /\ path = <<>>
    /\ acc = oc(Undefined)
    /\ callArgs = <<>>
    /\ res = Undefined
    /\ tres = Undefined
    /\ rpc = "idle"

InitRun ==
    /\ TransformerIdle
    /\ RecognizerIdle
    /\ \/ /\ rootGiven = TRUE
          /\ \/ data = Obj("o1") /\ heap \in Heaps
             \/ data \in Primitives /\ heap = EmptyHeap
       \/ /\ rootGiven = FALSE
          /\ data = Undefined /\ heap = EmptyHeap
    /\ acc = oc(data)
    /\ path = <<>>
    /\ callArgs = <<>>
    /\ res = Undefined
    /\ tres = Undefined
    /\ rpc = "chain"

\* acc.key
Get(key) ==
    /\ rpc = "chain"
    /\ Len(path) < MaxPath
    /\ LET r == ocGet(heap, acc, key) IN
         IF r = TypeError
         THEN rpc' = "threw" /\ acc' = acc
         ELSE rpc' = "chain" /\ acc' = r
    /\ path' = Append(path, key)
    /\ UNCHANGED <<heap, data, rootGiven, callArgs, res, tres, tvars, yvars>>

\* acc() and acc(d)
Call(a) ==
    /\ rpc = "chain"
    /\ callArgs' = a
    /\ res' = ocTarget(acc, IF a = <<>> THEN Undefined ELSE a[1])
    /\ rpc' = "called"
    /\ UNCHANGED <<heap, data, rootGiven, path, acc, tres, tvars, yvars>>

\* the same chain, compiled by the transformer and evaluated
Compiled ==
    /\ rpc = "called"
    /\ tres' = RunTransformed(rootGiven, path, callArgs, data, heap)
    /\ rpc' = "compared"
    /\ UNCHANGED <<heap, data, rootGiven, path, acc, callArgs, res, tvars, yvars>>

NextRun ==
    \/ \E key \in Keys : Get(key)
    \/ \E a \in ArgLists : Call(a)
    \/ Compiled

SpecRun == InitRun /\ [][NextRun]_vars

(***************************************************************************)
(* The transformer run on one source unit.                                 *)
(***************************************************************************)
Init ==
    /\ file \in Sources
    /\ out = UndefinedNode
    /\ visits = <<>>
    /\ pc = "ready"
    /\ RecognizerIdle
    /\ RunIdle

\* transformer(program)(context)(file)
Transform ==
    /\ pc = "ready"
    /\ LET r == transformer(file) IN
        /\ out' = r.node
        /\ visits' = r.visits
        /\ pc' = IF IsThrown(r.node) THEN "threw" ELSE "done"
    /\ UNCHANGED <<file, yvars, rvars>>

Next == Transform

Spec == Init /\ [][Next]_vars

TypeOK ==
    /\ pc \in {"ready", "done", "threw"}
    /\ (pc = "threw") = IsThrown(out)
    /\ (pc = "ready") = (out = UndefinedNode)

(***************************************************************************)
(* The type recognizer run on one type node.                               *)
(***************************************************************************)
MarkerRefs == { TypeRef(TSOC_ANY_SYMBOL, <<>>),
                TypeRef(TSOC_DATA_ACCESSOR_SYMBOL, <<PlainType>>),
                TypeRef(TSOC_TYPE_SYMBOL, <<PlainType>>) }

\* Type nodes that are neither a composition nor a marker: keywords, other
\* references, a qualified name ending in a marker name, generic wrappers
\* and an array with a marker inside.
OtherLeaves ==
    { KeywordType("string"), AnyType, PlainType,
      TypeRef("TSOCObjectWrapper", <<PlainType>>),
      QualifiedRef(TSOC_TYPE_SYMBOL, <<PlainType>>),
      TypeRef("Promise", <<OCTypeOf(PlainType)>>),
      ArrayTypeNode(OCTypeOf(PlainType)) }

Members(S, max) == UNION {[1..n -> S] : n \in 1..max}
Compose(S, max) == {UnionType(ms) : ms \in Members(S, max)}
                   \cup {IntersectionType(ms) : ms \in Members(S, max)}

NestLeaves == {OCAnyType, PlainType}
TypeNodes ==
    {NoTypeNode} \cup MarkerRefs \cup OtherLeaves
    \cup Compose(MarkerRefs \cup OtherLeaves, MaxMembers)
    \cup Compose(NestLeaves \cup Compose(NestLeaves, MaxMembers), MaxMembers)

InitType ==
    /\ TransformerIdle
    /\ RunIdle
    /\ tn \in TypeNodes
    /\ verdict = "pending"

Recognize ==
    /\ verdict = "pending"
    /\ verdict' = IF _isValidOCType(tn) THEN "true" ELSE "false"
    /\ UNCHANGED <<tn, tvars, rvars>>

NextType == Recognize

SpecType == InitType /\ [][NextType]_vars

IsComposition(t) == t.k \in {"UnionType", "IntersectionType"}

\* The type nodes reached from t through union and intersection members only.
RECURSIVE Exposed(_)
Exposed(t) ==
    IF IsComposition(t) THEN UNION {Exposed(t.types[i]) : i \in DOMAIN t.types}
    ELSE {t}

IsMarkerReference(t) ==
    /\ t.k = "TypeReference" /\ t.ident
    /\ t.name \in {"TSOCAny", "TSOCDataAccessor", "TSOCType"}

\* C8: _isValidOCType answers for every type node, and answers true exactly
\* when the node is, or exposes through nested unions and intersections in
\* any member order, a type reference whose name is an identifier equal to
\* TSOCAny, TSOCDataAccessor or TSOCType; an absent node, a composition of
\* non-markers and a wrapper with a marker type argument give false.
C8_RecognizesExactlyMarkers ==
    verdict \notin {"idle", "pending"} =>
      /\ verdict \in {"true", "false"}
      /\ (verdict = "true") = (\E l \in Exposed(tn) : IsMarkerReference(l))

\* a union whose first member is no marker and whose second member is a
\* composition exposing one
C8_Witness ==
    /\ verdict = "true"
    /\ tn.k = "UnionType" /\ Len(tn.types) = 2
    /\ ~IsMarkerReference(tn.types[1]) /\ ~IsComposition(tn.types[1])
    /\ IsComposition(tn.types[2])
    /\ ~IsMarkerReference(tn.types[2].types[1])

(***************************************************************************)
(* Reading a source chain and a synthesized conditional back, for the      *)
(* properties below.                                                       *)
(***************************************************************************)

IsAccess(e) == (isPropertyAccessExpression(e) \/ isElementAccessExpression(e)) /\ Len(e.kids) = 2

\* The segment nodes of a chain of accesses, shallowest first, and its root.
RECURSIVE PathOf(_), RootOf(_)
PathOf(e) == IF IsAccess(e) THEN Append(PathOf(e.kids[1]), e.kids[2]) ELSE <<>>
RootOf(e) == IF IsAccess(e) THEN RootOf(e.kids[1]) ELSE e

\* The chain under a statement expression: the callee of a closing call of
\* an accessor, else the expression itself.
IsOcCall(e) == isCallExpression(e) /\ isIdentifier(e.kids[1]) /\ e.kids[1].text = "oc"
IsClosingCall(e) == isCallExpression(e) /\ ~IsOcCall(e)
ChainOf(e) == IF IsClosingCall(e) THEN e.kids[1] ELSE e

\* The clauses of a left-associated conjunction, left to right.
RECURSIVE Clauses(_)
Clauses(c) ==
    IF c.kind = "BinaryExpression" /\ c.text = "&&"
    THEN Append(Clauses(c.kids[1]), c.kids[2])
    ELSE <<c>>

IsConditional(r) == r.kind = "ConditionalExpression" /\ Len(r.kids) = 3
IsNotNullTest(c) == c.kind = "BinaryExpression" /\ c.text = "!=" /\ c.kids[2] = createNull
GuardOf(r) == Clauses(r.kids[1])
ThenOf(r)  == r.kids[2]
ElseOf(r)  == r.kids[3]

\* clause k + 1 tests the access of segment k on what clause k tests
GuardFollowsPath(g, obj, segs) ==
    /\ \A k \in DOMAIN g : IsNotNullTest(g[k])
    /\ g[1].kids[1] = obj
    /\ \A k \in 1..Len(segs) :
          k + 1 \in DOMAIN g =>
            /\ IsAccess(g[k + 1].kids[1])
            /\ g[k + 1].kids[1].kids = <<g[k].kids[1], segs[k]>>

\* oc(obj).s1...sn(D) with n >= 1
IsDerefWithDefault(e) ==
    /\ IsClosingCall(e) /\ Len(argumentsOf(e)) = 1
    /\ Len(PathOf(ChainOf(e))) >= 1
    /\ IsOcCall(RootOf(ChainOf(e))) /\ Len(argumentsOf(RootOf(ChainOf(e)))) = 1
    /\ isIdentifier(argumentsOf(RootOf(ChainOf(e)))[1])

\* C1: a chain oc(obj).s1...sn(D), n >= 1, is replaced by a conditional
\* whose guard has n + 1 not-null clauses, one for obj and one for every
\* prefix of the path up to the full path, whose then-branch is the full
\* access and whose else-branch is D (itself rewritten, when D contains an
\* accessor chain).
C1_GuardCoversEveryPrefix ==
    pc = "done" =>
      \A s \in Stmts(file) :
        LET e == StmtExpr(file, s)
            r == StmtExpr(out, s)
        IN IsDerefWithDefault(e) =>
             LET segs == PathOf(ChainOf(e))
                 obj  == argumentsOf(RootOf(ChainOf(e)))[1]
             IN /\ IsConditional(r)
                /\ Len(GuardOf(r)) = Len(segs) + 1
                /\ GuardFollowsPath(GuardOf(r), obj, segs)
                /\ ThenOf(r) = GuardOf(r)[Len(segs) + 1].kids[1]
                /\ ElseOf(r) = transformer(argumentsOf(e)[1]).node

C1_Witness ==
    /\ pc = "done"
    /\ \E s \in Stmts(file) :
         /\ IsDerefWithDefault(StmtExpr(file, s))
         /\ Len(PathOf(ChainOf(StmtExpr(file, s)))) = MaxSegs
         /\ Len(GuardOf(StmtExpr(out, s))) = MaxSegs + 1

\* A statement whose expression the transformer replaced by a conditional.
IsExpanded(s) ==
    /\ pc = "done"
    /\ ~IsConditional(StmtExpr(file, s))
    /\ IsConditional(StmtExpr(out, s))

\* C2 as stated: the guard of a chain with n segments has exactly n
\* clauses, the full n-segment access being tested by none of them.
C2_GuardHasNClauses ==
    \A s \in Stmts(file) :
      IsExpanded(s) =>
        LET n == Len(PathOf(ChainOf(StmtExpr(file, s))))
            r == StmtExpr(out, s)
        IN /\ Len(GuardOf(r)) = n
           /\ \A k \in DOMAIN GuardOf(r) : GuardOf(r)[k].kids[1] # ThenOf(r)

\* C2 amended: the guard of a chain with n segments has exactly n + 1
\* not-null clauses (the root and all n accesses); the last clause tests the
\* full n-segment access, which is also the then-branch.
C2_GuardHasNPlusOneClauses ==
    \A s \in Stmts(file) :
      IsExpanded(s) =>
        LET n == Len(PathOf(ChainOf(StmtExpr(file, s))))
            r == StmtExpr(out, s)
        IN /\ Len(GuardOf(r)) = n + 1
           /\ \A k \in DOMAIN GuardOf(r) : IsNotNullTest(GuardOf(r)[k])
           /\ GuardOf(r)[n + 1].kids[1] = ThenOf(r)
           /\ Len(PathOf(ThenOf(r))) = n
           /\ \A k \in 1..n : GuardOf(r)[k].kids[1] # ThenOf(r)

\* accessor(list)[3].value(): two segments, three clauses
C2_Witness ==
    \E s \in Stmts(file) :
      /\ IsExpanded(s)
      /\ Len(PathOf(ChainOf(StmtExpr(file, s)))) = 2
      /\ isElementAccessExpression(ChainOf(StmtExpr(file, s)).kids[1])
      /\ IsClosingCall(StmtExpr(file, s)) /\ Len(argumentsOf(StmtExpr(file, s))) = 0
      /\ Len(GuardOf(StmtExpr(out, s))) = 3

\* An expression the driver hands to _expandOCExpression, and whether the
\* root of its chain is something the unwinding walk cannot end on.
IsAccessorExpr(e) ==
    \/ IsClosingCall(e) /\ _isValidOCType(typeNodeAt(expressionOf(e)))
    \/ isPropertyAccessExpression(e) /\ _isValidOCType(typeNodeAt(e))
UnwindFails(e) ==
    LET r == RootOf(ChainOf(e)) IN
    ~(isIdentifier(r) \/ isToken(r) \/ (isCallExpression(r) /\ Len(argumentsOf(r)) >= 1))
FailingStmt(s) == IsAccessorExpr(StmtExpr(file, s)) /\ UnwindFails(StmtExpr(file, s))
SoundStmt(s)   == IsAccessorExpr(StmtExpr(file, s)) /\ ~UnwindFails(StmtExpr(file, s))

\* C9 as stated: when the unwinding of one accessor expression fails, the
\* driver still completes the traversal and returns a tree in which every
\* other accessor chain is rewritten.
C9_TraversalSurvivesFailure ==
    pc # "ready" =>
      \A s \in Stmts(file) :
        FailingStmt(s) =>
          /\ pc = "done"
          /\ \A t \in Stmts(file) : SoundStmt(t) => IsConditional(StmtExpr(out, t))

\* C9 amended: when the unwinding of an accessor expression fails, the Error
\* thrown by _expandOCExpression leaves the driver: the transformer returns
\* no tree, the failing expression is the last node passed to visitNode and
\* no node of a later statement is visited.
C9_FailureAbortsTraversal ==
    pc # "ready" =>
      \A s \in Stmts(file) :
        FailingStmt(s) =>
          /\ pc = "threw" /\ IsThrown(out)
          /\ (\A t \in Stmts(file) : t < s => ~FailingStmt(t)) =>
                /\ visits[Len(visits)] = StmtExpr(file, s)
                /\ \A i \in DOMAIN visits : visits[i].id < 100 * (s + 1)

C9_Witness ==
    /\ pc = "threw"
    /\ Len(file.kids) = 2
    /\ FailingStmt(1) /\ SoundStmt(2)
    /\ visits[Len(visits)] = StmtExpr(file, 1)

IsAccessorTyped(n) == _isValidOCType(typeNodeAt(n))

\* C10 as stated: visitNode returns every node whose resolved type is not
\* an accessor marker type unchanged.
C10_NonAccessorTypedUnchanged ==
    \A i \in DOMAIN visits :
      ~IsAccessorTyped(visits[i]) => visitNode(visits[i]) = visits[i]

\* C10 amended: visitNode returns unchanged every node whose resolved type
\* is not an accessor marker type and which is not a call whose callee's
\* resolved type is one.
C10_UnrelatedNodeUnchanged ==
    \A i \in DOMAIN visits :
      LET n == visits[i] IN
      (~IsAccessorTyped(n) /\ ~(isCallExpression(n) /\ IsAccessorTyped(expressionOf(n))))
         => visitNode(n) = n

\* a plain call with an argument is visited and kept, next to a rewritten one
C10_Witness ==
    /\ pc = "done"
    /\ \E i \in DOMAIN visits :
         /\ isCallExpression(visits[i]) /\ Len(argumentsOf(visits[i])) >= 1
         /\ ~IsAccessorTyped(visits[i]) /\ ~IsAccessorTyped(expressionOf(visits[i]))
         /\ visits[i].id > 0
    /\ \E j \in DOMAIN visits :
         isCallExpression(visits[j]) /\ IsConditional(visitNode(visits[j]))

(***************************************************************************)
(* Properties of the run-time behaviour.                                   *)
(***************************************************************************)
Called == rpc \in {"called", "compared"}

\* The value at keys p[i..] below v, read through non-null objects only:
\* undefined as soon as a value that is not an object has to be read from.
RECURSIVE ValueAt(_, _, _, _)
ValueAt(h, v, p, i) ==
    IF i > Len(p) THEN v
    ELSE IF v.t = "object" THEN ValueAt(h, h[v.v][p[i]], p, i + 1)
    ELSE Undefined

Leaf == ValueAt(heap, data, path, 1)

\* C3 as stated: root.p1.p2 rewritten with default D evaluates to D if root
\* or root.p1 is null/undefined and to the value of root.p1.p2 otherwise,
\* also when that value is null or undefined.
C3_DefaultOnlyForAbsentAncestor ==
    (rpc = "compared" /\ rootGiven /\ Len(path) = 2 /\ callArgs # <<>>) =>
      tres = IF IsNullish(data) THEN callArgs[1]
             ELSE IF IsNullish(GetProp(heap, data, path[1])) THEN callArgs[1]
             ELSE GetProp(heap, GetProp(heap, data, path[1]), path[2])

\* C3 amended: root.p1.p2 rewritten with default D evaluates to D if any of
\* root, root.p1 and root.p1.p2 is null/undefined, and to the value of
\* root.p1.p2 otherwise: the default replaces a null/undefined leaf too.
C3_DefaultForAbsentLeafToo ==
    (rpc = "compared" /\ rootGiven /\ Len(path) = 2 /\ callArgs # <<>>) =>
      tres = IF IsNullish(data) THEN callArgs[1]
             ELSE IF IsNullish(GetProp(heap, data, path[1])) THEN callArgs[1]
             ELSE IF IsNullish(GetProp(heap, GetProp(heap, data, path[1]), path[2]))
                  THEN callArgs[1]
             ELSE GetProp(heap, GetProp(heap, data, path[1]), path[2])

\* x[0].a with x[0] an object and x[0].a null, default "D"
C3_Witness ==
    /\ rpc = "compared" /\ rootGiven /\ Len(path) = 2
    /\ callArgs = <<Str("D")>>
    /\ data.t = "object"
    /\ GetProp(heap, data, path[1]).t = "object"
    /\ GetProp(heap, GetProp(heap, data, path[1]), path[2]) = Null
    /\ tres = Str("D")

\* C4: reading any keys from oc(data) and calling the result with no
\* argument never throws; it returns the value at the path when every value
\* before the last is a non-null object and the last is neither null nor
\* undefined, and undefined otherwise.
C4_ProxyReadIsSafe ==
    /\ rpc # "threw"
    /\ (Called /\ callArgs = <<>>) =>
          res = IF IsNullish(Leaf) THEN Undefined ELSE Leaf

\* a path of full length that runs into null at its first key
C4_Witness ==
    /\ rpc = "called" /\ callArgs = <<>>
    /\ Len(path) = MaxPath
    /\ data.t = "object" /\ heap[data.v][path[1]] = Null
    /\ res = Undefined

\* C5: called with a default d, the accessor returns d exactly when the
\* value at the path is missing, null or undefined; a present falsy value
\* (false, 0, "") is returned as it is, with or without a default.
C5_DefaultOnlyWhenAbsent ==
    Called =>
      /\ callArgs # <<>> =>
            ((res = callArgs[1]) <=> (IsNullish(Leaf) \/ Leaf = callArgs[1]))
      /\ Leaf \in {Bool("false"), Num("0"), Str("")} => res = Leaf

C5_Witness ==
    /\ rpc = "called" /\ callArgs = <<Str("D")>>
    /\ Len(path) >= 1
    /\ Leaf = Num("0") /\ res = Num("0")

\* x.p1 && x.p1.p2 && ... && x.p1...pn, from key i on, v being x.p1...p(i-1)
RECURSIVE LogicAnd(_, _, _, _)
LogicAnd(h, v, p, i) ==
    LET cur == GetProp(h, v, p[i]) IN
    IF i = Len(p) \/ ~Truthy(cur) THEN cur ELSE LogicAnd(h, cur, p, i + 1)
LogicOr(l, d) == IF Truthy(l) THEN l ELSE d

\* every value before the last is an object or undefined and the last one
\* is not null, false, 0 or ""
RECURSIVE PlainPath(_, _, _, _)
PlainPath(h, v, p, i) ==
    LET cur == GetProp(h, v, p[i]) IN
    IF i = Len(p) THEN cur \notin {Null, Bool("false"), Num("0"), Str("")}
    ELSE cur = Undefined \/ (cur.t = "object" /\ PlainPath(h, cur, p, i + 1))

C7_TransformerAgreesWithProxy ==
    rpc = "compared" => tres = res

(***************************************************************************)
(* Properties of the whole output tree.                                    *)
(***************************************************************************)

\* The nodes of a tree.
RECURSIVE SubNodes(_)
SubNodes(n) == {n} \cup UNION {SubNodes(n.kids[i]) : i \in DOMAIN n.kids}

\* C11 as stated: the tree the transformer returns holds no node whose
\* resolved type is an accessor marker type, and transforming that tree a
\* second time returns it unchanged.
C11_SecondPassChangesNothing ==
    pc = "done" =>
      /\ \A n \in SubNodes(out) : ~IsAccessorTyped(n)
      /\ transformer(out).node = out

\* C12: the segments the unwinding walk recovers are in root-to-leaf order
\* (root[0].a[1] gives 0, a, 1), and the synthesized full access applies
\* them in the order of the input chain.
C12_SegmentsInSourceOrder ==
    \A s \in Stmts(file) :
      IsExpanded(s) =>
        LET c == ChainOf(StmtExpr(file, s))
            r == StmtExpr(out, s)
        IN /\ _walkExpression(c, <<>>).stack = PathOf(c)
           /\ PathOf(ThenOf(r)) = PathOf(c)

\* a chain root[0].a[0] was rewritten
C12_Witness ==
    \E s \in Stmts(file) :
      /\ IsExpanded(s)
      /\ LET p == PathOf(ChainOf(StmtExpr(file, s)))
         IN /\ Len(p) = 3
            /\ p[1].kind = "NumericLiteral" /\ p[2].text = "a" /\ p[3].kind = "NumericLiteral"
            /\ PathOf(ThenOf(StmtExpr(out, s))) = p

\* The statement expression without the argument of its closing call.
WithoutDefault(e) == IF IsClosingCall(e) THEN [e EXCEPT !.kids = <<e.kids[1]>>] ELSE e
HasDefault(e) == IsClosingCall(e) /\ Len(argumentsOf(e)) >= 1

\* C13: the else-branch is the first argument of the closing call when it
\* has one (visitNode puts that very node there; the traversal then
\* rewrites accessor chains inside it), and the identifier `undefined`
\* when the call has no argument or the chain has no closing call; guard
\* and then-branch are those of the same chain without a default.
C13_ElseBranchIsDefault ==
    \A s \in Stmts(file) :
      IsExpanded(s) =>
        LET e == StmtExpr(file, s)
            r == StmtExpr(out, s)
            b == transformer(WithoutDefault(e)).node
        IN /\ IsConditional(visitNode(e))
           /\ ElseOf(visitNode(e)) = IF HasDefault(e) THEN argumentsOf(e)[1]
                                     ELSE createIdentifier("undefined")
           /\ ElseOf(r) = IF HasDefault(e) THEN transformer(argumentsOf(e)[1]).node
                          ELSE createIdentifier("undefined")
           /\ IsConditional(b)
           /\ r.kids[1] = b.kids[1] /\ ThenOf(r) = ThenOf(b)
           /\ ElseOf(b) = createIdentifier("undefined")

\* a chain closed with a default, whose else-branch differs from the one
\* of the chain closed without
C13_Witness ==
    \E s \in Stmts(file) :
      /\ IsExpanded(s)
      /\ HasDefault(StmtExpr(file, s))
      /\ Len(PathOf(ChainOf(StmtExpr(file, s)))) >= 1
      /\ ElseOf(StmtExpr(out, s)) = argumentsOf(StmtExpr(file, s))[1]
      /\ ElseOf(StmtExpr(out, s)) # createIdentifier("undefined")

\* accessor(root)() and accessor(root)(D): a wrap closed with no segment
IsBareDeref(e) ==
    /\ IsClosingCall(e)
    /\ IsOcCall(ChainOf(e)) /\ Len(argumentsOf(ChainOf(e))) >= 1

\* C14: a chain of zero segments closed by a dereference call becomes a
\* conditional whose guard is the single clause root != null and whose
\* then-branch is root.
C14_ZeroSegmentsGuardRoot ==
    pc = "done" =>
      \A s \in Stmts(file) :
        LET e == StmtExpr(file, s)
            r == StmtExpr(out, s)
        IN IsBareDeref(e) =>
             LET root == argumentsOf(ChainOf(e))[1]
             IN /\ IsConditional(r)
                /\ GuardOf(r) = <<createBinary(root, "!=", createNull)>>
                /\ ThenOf(r) = root

\* accessor(x)(d) was rewritten to x != null ? x : d
C14_Witness ==
    /\ pc = "done"
    /\ \E s \in Stmts(file) :
         /\ IsBareDeref(StmtExpr(file, s))
         /\ Len(argumentsOf(StmtExpr(file, s))) = 1
         /\ Len(GuardOf(StmtExpr(out, s))) = 1
         /\ ThenOf(StmtExpr(out, s)) = argumentsOf(ChainOf(StmtExpr(file, s)))[1]

\* accessor(obj)(): a bare wrap closed without a default
IsBareWrap(e) == IsBareDeref(e) /\ Len(argumentsOf(e)) = 0

\* C15 as stated: the bare wrap accessor(obj)() is rewritten to the plain
\* expression obj; no conditional is produced.
C15_BareWrapBecomesObj ==
    pc = "done" =>
      \A s \in Stmts(file) :
        IsBareWrap(StmtExpr(file, s)) =>
          StmtExpr(out, s) = argumentsOf(ChainOf(StmtExpr(file, s)))[1]

\* C15, amended: the bare wrap accessor(obj)() is rewritten to the
\* conditional obj != null ? obj : undefined, with one guard clause.
C15_BareWrapBecomesConditional ==
    pc = "done" =>
      \A s \in Stmts(file) :
        IsBareWrap(StmtExpr(file, s)) =>
          LET obj == argumentsOf(ChainOf(StmtExpr(file, s)))[1]
          IN StmtExpr(out, s) =
               createConditional(createBinary(obj, "!=", createNull), obj,
                                 createIdentifier("undefined"))

C15_Witness ==
    /\ pc = "done"
    /\ \E s \in Stmts(file) :
         /\ IsBareWrap(StmtExpr(file, s))
         /\ IsConditional(StmtExpr(out, s))
         /\ ElseOf(StmtExpr(out, s)) = createIdentifier("undefined")

\* A call of accessor type whose callee is not of accessor type.
IsWrap(n) ==
    /\ isCallExpression(n)
    /\ ~IsAccessorTyped(expressionOf(n))
    /\ IsAccessorTyped(n)

\* C16: a call of accessor type whose callee is not of accessor type is
\* replaced by exactly its first argument when it has one, no guard and no
\* conditional being synthesized for it, and is returned unchanged when it
\* has no argument.
C16_WrapBecomesFirstArgument ==
    pc = "done" =>
      /\ \A i \in DOMAIN visits :
           IsWrap(visits[i]) =>
             visitNode(visits[i]) = IF Len(argumentsOf(visits[i])) >= 1
                                    THEN argumentsOf(visits[i])[1]
                                    ELSE visits[i]
      /\ \A s \in Stmts(file) :
           LET e == StmtExpr(file, s)
               r == StmtExpr(out, s)
           IN IsWrap(e) =>
                /\ ~IsConditional(r)
                /\ Len(argumentsOf(e)) = 0 => r = e
                /\ (Len(argumentsOf(e)) >= 1 /\ isIdentifier(argumentsOf(e)[1])) =>
                      r = argumentsOf(e)[1]

\* the statement oc(x) became x
C16_Witness ==
    /\ pc = "done"
    /\ \E s \in Stmts(file) :
         /\ IsWrap(StmtExpr(file, s))
         /\ Len(argumentsOf(StmtExpr(file, s))) = 1
         /\ isIdentifier(StmtExpr(out, s))
         /\ StmtExpr(out, s) = argumentsOf(StmtExpr(file, s))[1]

Visited(n) == \E i \in DOMAIN visits : visits[i] = n

\* C17 as stated: after a substitution the traversal descends into the
\* children of the original node and never into the replacement: no
\* synthesized node is passed to visitNode, the children of the replaced
\* node are.
C17_ReplacementNotVisited ==
    pc = "done" =>
      /\ \A i \in DOMAIN visits : visits[i].id # 0
      /\ \A s \in Stmts(file) :
           IsExpanded(s) =>
             \A k \in DOMAIN StmtExpr(file, s).kids : Visited(StmtExpr(file, s).kids[k])

\* C17, amended: after a substitution the traversal descends into the
\* children of the replacement and not into those of the original node:
\* guard, then-branch and else-branch of the synthesized conditional are
\* passed to visitNode, the conditional itself and the children of the
\* original node that the replacement does not contain are not.
C17_ReplacementChildrenVisited ==
    pc = "done" =>
      \A s \in Stmts(file) :
        IsExpanded(s) =>
          LET e == StmtExpr(file, s)
              v == visitNode(e)
          IN /\ \A k \in DOMAIN v.kids : Visited(v.kids[k])
             /\ ~Visited(v)
             /\ \A k \in DOMAIN e.kids :
                  e.kids[k] \notin SubNodes(v) => ~Visited(e.kids[k])

\* a synthesized not-null test was passed to visitNode
C17_Witness ==
    /\ pc = "done"
    /\ \E s \in Stmts(file) :
         /\ IsExpanded(s)
         /\ IsClosingCall(StmtExpr(file, s))
         /\ \E i \in DOMAIN visits :
              /\ visits[i].id = 0
              /\ visits[i] = visitNode(StmtExpr(file, s)).kids[1]

\* Where a walk that unwinds accesses and the callees of calls would end.
RECURSIVE WalkEnd(_)
WalkEnd(e) ==
    IF IsAccess(e) \/ isCallExpression(e) THEN WalkEnd(e.kids[1]) ELSE e

\* A rewritten statement whose chain of accesses sits on a call.
MeetsCall(s) == IsExpanded(s) /\ isCallExpression(RootOf(ChainOf(StmtExpr(file, s))))

\* C18 as stated: a call met by the unwinding walk contributes no path
\* segment and does not end the walk, which continues into the callee.
C18_WalkContinuesIntoCallee ==
    \A s \in Stmts(file) :
      MeetsCall(s) =>
        LET c == ChainOf(StmtExpr(file, s))
            w == _walkExpression(c, <<>>)
            r == StmtExpr(out, s)
        IN /\ w.stack = PathOf(c)
           /\ w.root = WalkEnd(RootOf(c))
           /\ GuardOf(r)[1].kids[1] = WalkEnd(RootOf(c))

\* C18, amended: a call met by the unwinding walk contributes no path
\* segment and ends the walk: it has a first argument, which is the root expression,
\* the one the first guard clause tests (rewritten, when it contains an
\* accessor chain); the callee is not unwound.
C18_WalkEndsAtCall ==
    \A s \in Stmts(file) :
      MeetsCall(s) =>
        LET c == ChainOf(StmtExpr(file, s))
            w == _walkExpression(c, <<>>)
            r == StmtExpr(out, s)
        IN /\ Len(argumentsOf(RootOf(c))) >= 1
           /\ w.stack = PathOf(c)
           /\ w.root = argumentsOf(RootOf(c))[1]
           /\ GuardOf(r)[1].kids[1] = transformer(argumentsOf(RootOf(c))[1]).node
           /\ expressionOf(RootOf(c)) \notin SubNodes(r)

\* oc(x).a...() was rewritten with x, not oc, as its root
C18_Witness ==
    \E s \in Stmts(file) :
      /\ MeetsCall(s)
      /\ Len(PathOf(ChainOf(StmtExpr(file, s)))) >= 1
      /\ GuardOf(StmtExpr(out, s))[1].kids[1] = argumentsOf(RootOf(ChainOf(StmtExpr(file, s))))[1]
      /\ isIdentifier(GuardOf(StmtExpr(out, s))[1].kids[1])

\* The access nodes of a chain, shallowest first.
RECURSIVE Accesses(_)
Accesses(e) == IF IsAccess(e) THEN Append(Accesses(e.kids[1]), e) ELSE <<>>

\* C19: the rewrite preserves the kind of every access: an indexed access
\* base[key] of the chain is an indexed access with the same key in every
\* guard clause and in the then-branch, also when the key is a bare
\* identifier, and a property access is a member access of the same name.
C19_AccessKindPreserved ==
    \A s \in Stmts(file) :
      IsExpanded(s) =>
        LET src == Accesses(ChainOf(StmtExpr(file, s)))
            r   == StmtExpr(out, s)
            syn == Accesses(ThenOf(r))
        IN /\ Len(syn) = Len(src)
           /\ \A k \in DOMAIN src :
                /\ syn[k].kind = src[k].kind
                /\ syn[k].kids[2] = src[k].kids[2]
                /\ GuardOf(r)[k + 1].kids[1].kind = src[k].kind

\* The number of positions of tree t at which node n occurs.
RECURSIVE Occurrences(_, _), OccurrencesIn(_, _, _)
Occurrences(t, n) == (IF t = n THEN 1 ELSE 0) + OccurrencesIn(t.kids, 1, n)
OccurrencesIn(ks, i, n) ==
    IF i > Len(ks) THEN 0 ELSE Occurrences(ks[i], n) + OccurrencesIn(ks, i + 1, n)

\* A statement whose expression visitNode replaced.  Nodes of the input
\* have a positive id, created nodes have id 0.
IsReplaced(s) ==
    /\ pc = "done"
    /\ visitNode(StmtExpr(file, s)) # StmtExpr(file, s)

\* C20 as stated: a replacement shares no node with the input tree: all
\* its nodes are newly created, and no node occurs at two positions of the
\* output tree.
C20_ReplacementIsAllNew ==
    \A s \in Stmts(file) :
      IsReplaced(s) =>
        /\ \A n \in SubNodes(visitNode(StmtExpr(file, s))) : n.id = 0
        /\ \A n \in SubNodes(StmtExpr(out, s)) : n.id = 0
        /\ \A n \in SubNodes(out) : n.id # 0 => Occurrences(out, n) = 1

\* C20, amended: a rewrite leaves the input tree as it was, but its
\* replacement reuses nodes of it: the conditional, the not-null tests and
\* the accesses are newly created, every other node of the replacement is
\* a node of the replaced expression, unmodified, and the root expression
\* is one node occurring in every guard clause and in the then-branch.
C20_ReplacementReusesInputNodes ==
    \A s \in Stmts(file) :
      IsReplaced(s) =>
        LET e == StmtExpr(file, s)
            v == visitNode(e)
            r == StmtExpr(out, s)
        IN /\ \A n \in SubNodes(v) : n.id # 0 => n \in SubNodes(e)
           /\ \A n \in SubNodes(v) :
                n.id = 0 => \/ n.kind \in {"ConditionalExpression", "BinaryExpression", "NullKeyword"}
                            \/ IsAccess(n)
                            \/ n = createIdentifier("undefined")
           /\ IsConditional(v) =>
                LET root == GuardOf(v)[1].kids[1]
                IN /\ v.id = 0 /\ v.kids[1].id = 0
                   /\ \A k \in DOMAIN GuardOf(v) :
                        /\ GuardOf(v)[k].id = 0
                        /\ k > 1 => GuardOf(v)[k].kids[1].id = 0
                   /\ root.id # 0
                   /\ Occurrences(v, root) = Len(GuardOf(v)) + 1
                   /\ isIdentifier(root) => Occurrences(r, root) = Len(GuardOf(r)) + 1

\* the root identifier of a rewritten chain of MaxSegs segments occurs
\* MaxSegs + 2 times in the output
C20_Witness ==
    \E s \in Stmts(file) :
      /\ IsReplaced(s)
      /\ IsConditional(StmtExpr(out, s))
      /\ Len(GuardOf(StmtExpr(out, s))) = MaxSegs + 1
      /\ GuardOf(StmtExpr(out, s))[1].kids[1].id # 0
      /\ Occurrences(out, GuardOf(StmtExpr(out, s))[1].kids[1]) = MaxSegs + 2

====
